---- MODULE Spec2Model ----
(***************************************************************************)
(* pgdump_filter: a streaming line filter for pg_dump text output.         *)
(* The model follows src/src/main.rs: the classifier State::next_state,    *)
(* the decider State::must_include and the read/classify/write loop of     *)
(* main.  A line is a sequence of bytes, written as one-character strings; *)
(* the token "0xFF" stands for a byte that is not valid UTF-8.             *)
(***************************************************************************)
EXTENDS Integers, Sequences, FiniteSets, TLC

VARIABLES opts, pc, state, prev_included_state, input, output, states,
          decisions, stateB, prevB, decisionsB

vars == <<opts, pc, state, prev_included_state, input, output, states,
          decisions, stateB, prevB, decisionsB>>

\* Longest input, in lines, that the line source delivers in one run.
MaxLen == 4

\* Longest common tail, in lines, that the two compared runs read.
MaxTail == 3

\* Longest input, in lines, of the runs that compare block names.
MaxHeaders == 2

\* Longest input, in lines, of the runs whose whole input is fixed at the start.
MaxTermLen == 3

(***************************************************************************)
(* Byte patterns (lazy_static block).                                      *)
(***************************************************************************)
COMMENT ==
    <<"-","-">>

END_OF_COPY_BLOCK ==
    <<"\\",".">>

NEWLINE ==
    <<"\n">>

COPY_BLOCK_PREFIX ==
    <<"C","O","P","Y"," ">>

COPY_BLOCK_SUFFIX ==
    <<"F","R","O","M"," ","s","t","d","i","n",";","\n">>

LO_CREATE ==
    <<"S","E","L","E","C","T"," ","p","g","_","c","a","t","a","l","o","g",".","l","o","_","c","r","e","a","t","e">>

LO_FN ==
    <<"S","E","L","E","C","T"," ","p","g","_","c","a","t","a","l","o","g",".","l","o","_">>

LO_WRITE ==
    <<"S","E","L","E","C","T"," ","p","g","_","c","a","t","a","l","o","g",".","l","o","w","r","i","t","e">>

(***************************************************************************)
(* Slice and string primitives used by the classifier.                     *)
(***************************************************************************)
\* <[u8]>::starts_with
StartsWith(buf, pat) ==
    /\ Len(buf) >= Len(pat)
    /\ SubSeq(buf, 1, Len(pat)) = pat

\* <[u8]>::ends_with
EndsWith(buf, pat) ==
    /\ Len(buf) >= Len(pat)
    /\ SubSeq(buf, Len(buf) - Len(pat) + 1, Len(buf)) = pat

\* str::contains
Contains(l, pat) ==
    \E h \in {l}, p \in {pat} :
        \E i \in 1..(Len(h) - Len(p) + 1) : SubSeq(h, i, i + Len(p) - 1) = p

\* String::from_utf8 succeeds
Utf8Valid(buf) ==
    \A i \in 1..Len(buf) : buf[i] # "0xFF"

UpperChars ==
    <<"A","B","C","D","E","F","G","H","I","J","K","L","M","N","O","P","Q","R","S","T","U","V","W","X","Y","Z">>

LowerChars ==
    <<"a","b","c","d","e","f","g","h","i","j","k","l","m","n","o","p","q","r","s","t","u","v","w","x","y","z">>

\* char::to_lowercase on the ASCII range
LowerOf ==
    [c \in {UpperChars[k] : k \in 1..Len(UpperChars)} |->
        LowerChars[CHOOSE k \in 1..Len(UpperChars) : UpperChars[k] = c]]

LowerChar(c) ==
    IF c \in DOMAIN LowerOf THEN LowerOf[c] ELSE c

\* str::to_lowercase
ToLowercase(s) ==
    [i \in 1..Len(s) |-> LowerChar(s[i])]

\* variant: the pattern does not end with a space
BlockPattern_NoSpace(schema, block) ==
    ToLowercase(<<"C","O","P","Y"," ">> \o schema \o <<".">> \o block)

\* format!("COPY {}.{} ", schema, block).to_lowercase()
BlockPattern(schema, block) ==
    ToLowercase(<<"C","O","P","Y"," ">> \o schema \o <<".">> \o block \o <<" ">>)

\* Iterator::any over a Vec<String>
AnyBlockMatches(l, blocks, schema) ==
    \E k \in 1..Len(blocks) : Contains(l, BlockPattern(schema, blocks[k]))

(***************************************************************************)
(* enum State                                                              *)
(***************************************************************************)
State ==
    {"Init", "Comment", "EmptyLine", "ConsecutiveEmptyLine",
     "ExcludedCopyBlock", "EndOfExcludedCopyBlock", "LargeObject",
     "Statement"}

(***************************************************************************)
(* State::next_state, one definition per match arm.                        *)
(***************************************************************************)
\* variant: a blank line after a comment counts as a repeated blank line
EmptyLineState_AfterComment(self) ==
    CASE self = "EmptyLine" -> "ConsecutiveEmptyLine"
      [] self = "ConsecutiveEmptyLine" -> "ConsecutiveEmptyLine"
      [] self = "Comment" -> "ConsecutiveEmptyLine"
      [] OTHER -> "EmptyLine"

\* arm: buf.starts_with(NEWLINE)
EmptyLineState(self) ==
    CASE self = "EmptyLine" -> "ConsecutiveEmptyLine"
      [] self = "ConsecutiveEmptyLine" -> "ConsecutiveEmptyLine"
      [] OTHER -> "EmptyLine"

\* variant: outside an excluded block the marker yields Statement
EndOfCopyState_Statement(self) ==
    IF self = "ExcludedCopyBlock" THEN "EndOfExcludedCopyBlock" ELSE "Statement"

\* arm: buf.starts_with(END_OF_COPY_BLOCK)
EndOfCopyState(self) ==
    IF self = "ExcludedCopyBlock" THEN "EndOfExcludedCopyBlock" ELSE self

\* variant: the allow-list arm is missing
CopyHeaderState_NoAllowList(l, o) ==
    IF AnyBlockMatches(l, o.excluded_copy_blocks, o.schema)
    THEN "ExcludedCopyBlock"
    ELSE "Statement"

\* arm: COPY header, after the lower-cased copy l has been made
CopyHeaderState(l, o) ==
    IF AnyBlockMatches(l, o.excluded_copy_blocks, o.schema)
    THEN "ExcludedCopyBlock"
    ELSE IF /\ o.included_copy_blocks # <<>>
            /\ ~AnyBlockMatches(ToLowercase(l), o.included_copy_blocks, o.schema)
         THEN "ExcludedCopyBlock"
         ELSE "Statement"

\* variant: the line after the end marker still belongs to the block
FallbackState_AfterEnd(self) ==
    IF self \in {"ExcludedCopyBlock", "EndOfExcludedCopyBlock"}
    THEN "ExcludedCopyBlock"
    ELSE "Statement"

\* arm: _
FallbackState(self) ==
    IF self = "ExcludedCopyBlock" THEN "ExcludedCopyBlock" ELSE "Statement"

\* the guard of the COPY header arm
IsCopyHeader(buf) ==
    StartsWith(buf, COPY_BLOCK_PREFIX) /\ EndsWith(buf, COPY_BLOCK_SUFFIX)

\* variant: the LO_FN / LO_WRITE arm comes before the LO_CREATE arm
NextState_LoFnFirst(self, buf, o) ==
    IF StartsWith(buf, LO_FN) \/ StartsWith(buf, LO_WRITE) THEN "LargeObject"
    ELSE IF StartsWith(buf, LO_CREATE) THEN "Statement"
    ELSE IF StartsWith(buf, NEWLINE) THEN EmptyLineState(self)
    ELSE IF StartsWith(buf, COMMENT) THEN "Comment"
    ELSE IF StartsWith(buf, END_OF_COPY_BLOCK) THEN EndOfCopyState(self)
    ELSE IF IsCopyHeader(buf)
         THEN IF Utf8Valid(buf) THEN CopyHeaderState(ToLowercase(buf), o) ELSE "Err"
    ELSE FallbackState(self)

\* variant: inside an excluded block only the end marker is looked at
NextState_ExcludedFirst(self, buf, o) ==
    IF self = "ExcludedCopyBlock" /\ ~StartsWith(buf, END_OF_COPY_BLOCK)
    THEN "ExcludedCopyBlock"
    ELSE IF StartsWith(buf, LO_CREATE) THEN "Statement"
    ELSE IF StartsWith(buf, LO_FN) \/ StartsWith(buf, LO_WRITE) THEN "LargeObject"
    ELSE IF StartsWith(buf, NEWLINE) THEN EmptyLineState(self)
    ELSE IF StartsWith(buf, COMMENT) THEN "Comment"
    ELSE IF StartsWith(buf, END_OF_COPY_BLOCK) THEN EndOfCopyState(self)
    ELSE IF IsCopyHeader(buf)
         THEN IF Utf8Valid(buf) THEN CopyHeaderState(ToLowercase(buf), o) ELSE "Err"
    ELSE FallbackState(self)

\* variant: String::from_utf8 is applied to every line, before the match
NextState_Utf8Eager(self, buf, o) ==
    IF ~Utf8Valid(buf) THEN "Err"
    ELSE IF StartsWith(buf, LO_CREATE) THEN "Statement"
    ELSE IF StartsWith(buf, LO_FN) \/ StartsWith(buf, LO_WRITE) THEN "LargeObject"
    ELSE IF StartsWith(buf, NEWLINE) THEN EmptyLineState(self)
    ELSE IF StartsWith(buf, COMMENT) THEN "Comment"
    ELSE IF StartsWith(buf, END_OF_COPY_BLOCK) THEN EndOfCopyState(self)
    ELSE IF IsCopyHeader(buf) THEN CopyHeaderState(ToLowercase(buf), o)
    ELSE FallbackState(self)

\* Result<State>: a State, or "Err" when String::from_utf8 fails
NextState(self, buf, o) ==
    IF StartsWith(buf, LO_CREATE) THEN "Statement"
    ELSE IF StartsWith(buf, LO_FN) \/ StartsWith(buf, LO_WRITE) THEN "LargeObject"
    ELSE IF StartsWith(buf, NEWLINE) THEN EmptyLineState(self)
    ELSE IF StartsWith(buf, COMMENT) THEN "Comment"
    ELSE IF StartsWith(buf, END_OF_COPY_BLOCK) THEN EndOfCopyState(self)
    ELSE IF IsCopyHeader(buf)
         THEN IF Utf8Valid(buf) THEN CopyHeaderState(ToLowercase(buf), o) ELSE "Err"
    ELSE FallbackState(self)

(***************************************************************************)
(* State::must_include                                                     *)
(***************************************************************************)
\* variant: the EmptyLine arm is missing
MustInclude_NoCollapse(self, o, prev) ==
    CASE self = "Comment" -> FALSE
      [] self = "ConsecutiveEmptyLine" -> FALSE
      [] self = "ExcludedCopyBlock" -> FALSE
      [] self = "EndOfExcludedCopyBlock" -> FALSE
      [] self = "LargeObject" /\ o.exclude_large_objects -> FALSE
      [] OTHER -> TRUE

\* variant: the Comment arm is missing
MustInclude_KeepComments(self, o, prev) ==
    CASE self = "ConsecutiveEmptyLine" -> FALSE
      [] self = "ExcludedCopyBlock" -> FALSE
      [] self = "EndOfExcludedCopyBlock" -> FALSE
      [] self = "LargeObject" /\ o.exclude_large_objects -> FALSE
      [] self = "EmptyLine" /\ prev = "EmptyLine" -> FALSE
      [] OTHER -> TRUE

\* variant: the EndOfExcludedCopyBlock arm is missing
MustInclude_KeepEnd(self, o, prev) ==
    CASE self = "Comment" -> FALSE
      [] self = "ConsecutiveEmptyLine" -> FALSE
      [] self = "ExcludedCopyBlock" -> FALSE
      [] self = "LargeObject" /\ o.exclude_large_objects -> FALSE
      [] self = "EmptyLine" /\ prev = "EmptyLine" -> FALSE
      [] OTHER -> TRUE

MustInclude(self, o, prev) ==
    CASE self = "Comment" -> FALSE
      [] self = "ConsecutiveEmptyLine" -> FALSE
      [] self = "ExcludedCopyBlock" -> FALSE
      [] self = "EndOfExcludedCopyBlock" -> FALSE
      [] self = "LargeObject" /\ o.exclude_large_objects -> FALSE
      [] self = "EmptyLine" /\ prev = "EmptyLine" -> FALSE
      [] OTHER -> TRUE

(***************************************************************************)
(* The command line and the line source.                                   *)
(***************************************************************************)
\* Values of -e and -i that the runs are started with.
BlockLists ==
    {<<>>, << <<"x">>, <<"T">> >>}

\* Values of -s.
Schemas ==
    {<<"p","u","b","l","i","c">>}

\* Records that reader.read_until(b'\n') delivers: a blank line, a comment,
\* the end marker, a data row, two COPY headers, a COPY header holding a byte
\* that is not UTF-8, an lo_create call and a lowrite call whose argument
\* holds a byte that is not UTF-8.
Lines ==
    { <<"\n">>,
      <<"-","-","c","\n">>,
      <<"\\",".","\n">>,
      <<"1","\n">>,
      <<"C","O","P","Y"," ","p","u","b","l","i","c",".","t"," ","F","R","O","M"," ","s","t","d","i","n",";","\n">>,
      <<"C","O","P","Y"," ","p","u","b","l","i","c",".","u"," ","F","R","O","M"," ","s","t","d","i","n",";","\n">>,
      <<"C","O","P","Y"," ","p","u","b","l","i","c",".","0xFF"," ","F","R","O","M"," ","s","t","d","i","n",";","\n">>,
      <<"S","E","L","E","C","T"," ","p","g","_","c","a","t","a","l","o","g",".","l","o","_","c","r","e","a","t","e","(","1",")",";","\n">>,
      <<"S","E","L","E","C","T"," ","p","g","_","c","a","t","a","l","o","g",".","l","o","w","r","i","t","e","(","0xFF",")",";","\n">> }

\* variant: no conflict is declared between the two lists
ArgsConflict_Ignored(o) ==
    FALSE

\* structopt: excluded_copy_blocks conflicts_with included_copy_blocks
ArgsConflict(o) ==
    o.excluded_copy_blocks # <<>> /\ o.included_copy_blocks # <<>>

(***************************************************************************)
(* main                                                                    *)
(***************************************************************************)
Init ==
    /\ opts \in [excluded_copy_blocks : BlockLists,
                 included_copy_blocks : BlockLists,
                 exclude_large_objects : BOOLEAN,
                 schema : Schemas]
    /\ pc = "args"
    /\ state = "Init"
    /\ prev_included_state = "Init"
    /\ input = <<>>
    /\ output = <<>>
    /\ states = <<>>
    /\ decisions = <<>>
    /\ stateB = "Init"
    /\ prevB = "Init"
    /\ decisionsB = <<>>

\* Options::from_args(): exits the process on a conflict, else enters the loop
ParseArgs ==
    /\ pc = "args"
    /\ pc' = IF ArgsConflict(opts) THEN "rejected" ELSE "loop"
    /\ UNCHANGED <<opts, state, prev_included_state, input, output, states,
                   decisions, stateB, prevB, decisionsB>>

\* variant: the lower-cased copy is written instead of the bytes read
WriteAll_Lowercased(out, buf) ==
    Append(out, ToLowercase(buf))

\* stdout.write_all(&buf)
WriteAll(out, buf) ==
    Append(out, buf)

\* variant: prev_included_state takes the state of the line before
LoopBody_StalePrev(self, prev, buf, o) ==
    LET ns == NextState(self, buf, o)
        emit == MustInclude(ns, o, prev)
    IN  [state |-> ns,
         prev  |-> IF emit THEN self ELSE prev,
         emit  |-> emit]

\* variant: prev_included_state follows every line, emitted or not
LoopBody_AlwaysTrack(self, prev, buf, o) ==
    LET ns == NextState(self, buf, o)
        emit == MustInclude(ns, o, prev)
    IN  [state |-> ns,
         prev  |-> ns,
         emit  |-> emit]

\* Body of the loop after a successful read: the new state, the new
\* prev_included_state and the emit decision, as a function of the result
\* of next_state, which is computed once.
LoopBody(self, prev, buf, o) ==
    LET body == [ns \in State \cup {"Err"} |->
                    LET emit == MustInclude(ns, o, prev)
                    IN  [state |-> ns,
                         prev  |-> IF emit THEN ns ELSE prev,
                         emit  |-> emit]]
    IN  body[NextState(self, buf, o)]

\* One iteration: the read, the classification and the write all succeed.
Step ==
    /\ pc = "loop"
    /\ Len(input) < MaxLen
    /\ \E buf \in Lines :
         LET r == LoopBody(state, prev_included_state, buf, opts) IN
         /\ r.state # "Err"
         /\ input' = Append(input, buf)
         /\ state' = r.state
         /\ prev_included_state' = r.prev
         /\ states' = Append(states, r.state)
         /\ decisions' = Append(decisions, r.emit)
         /\ output' = IF r.emit THEN WriteAll(output, buf) ELSE output
    /\ UNCHANGED <<opts, pc, stateB, prevB, decisionsB>>

\* One iteration in which next_state returns Err and `?` leaves main.
StepClassifyError ==
    /\ pc = "loop"
    /\ Len(input) < MaxLen
    /\ \E buf \in Lines :
         /\ NextState(state, buf, opts) = "Err"
         /\ input' = Append(input, buf)
    /\ pc' = "failed"
    /\ UNCHANGED <<opts, state, prev_included_state, output, states,
                   decisions, stateB, prevB, decisionsB>>

\* One iteration in which write_all returns Err and `?` leaves main.
StepWriteError ==
    /\ pc = "loop"
    /\ Len(input) < MaxLen
    /\ \E buf \in Lines :
         LET r == LoopBody(state, prev_included_state, buf, opts) IN
         /\ r.state # "Err"
         /\ r.emit
         /\ input' = Append(input, buf)
         /\ state' = r.state
         /\ prev_included_state' = r.prev
         /\ states' = Append(states, r.state)
         /\ decisions' = Append(decisions, r.emit)
    /\ pc' = "failed"
    /\ UNCHANGED <<opts, output, stateB, prevB, decisionsB>>

\* read_until returns Err and `?` leaves main.
ReadError ==
    /\ pc = "loop"
    /\ pc' = "failed"
    /\ UNCHANGED <<opts, state, prev_included_state, input, output, states,
                   decisions, stateB, prevB, decisionsB>>

\* read_until returns 0: break, flush, Ok(()) (or the flush fails).
EndOfInput ==
    /\ pc = "loop"
    /\ pc' \in {"done", "failed"}
    /\ UNCHANGED <<opts, state, prev_included_state, input, output, states,
                   decisions, stateB, prevB, decisionsB>>

Next ==
    \/ ParseArgs
    \/ Step
    \/ StepClassifyError
    \/ StepWriteError
    \/ ReadError
    \/ EndOfInput

Spec == Init /\ [][Next]_vars

(***************************************************************************)
(* Two runs of the loop under one configuration.  Run A (state,            *)
(* prev_included_state) and run B (stateB, prevB) first read lines of      *)
(* their own, then both read the same COPY header that the configuration   *)
(* keeps, then both read the same lines.  input holds the common lines,    *)
(* decisions and decisionsB the emit decisions taken on them, and states   *)
(* the two states the runs were in when the header arrived.                *)
(***************************************************************************)
PairInit ==
    /\ opts \in [excluded_copy_blocks : BlockLists,
                 included_copy_blocks : BlockLists,
                 exclude_large_objects : BOOLEAN,
                 schema : Schemas]
    /\ ~ArgsConflict(opts)
    /\ pc = "prefix"
    /\ state = "Init"
    /\ prev_included_state = "Init"
    /\ stateB = "Init"
    /\ prevB = "Init"
    /\ input = <<>>
    /\ output = <<>>
    /\ states = <<>>
    /\ decisions = <<>>
    /\ decisionsB = <<>>

PairPrefixA ==
    /\ pc = "prefix"
    /\ \E buf \in Lines :
         LET r == LoopBody(state, prev_included_state, buf, opts) IN
         /\ r.state # "Err"
         /\ state' = r.state
         /\ prev_included_state' = r.prev
    /\ UNCHANGED <<opts, pc, input, output, states, decisions, stateB, prevB,
                   decisionsB>>

PairPrefixB ==
    /\ pc = "prefix"
    /\ \E buf \in Lines :
         LET r == LoopBody(stateB, prevB, buf, opts) IN
         /\ r.state # "Err"
         /\ stateB' = r.state
         /\ prevB' = r.prev
    /\ UNCHANGED <<opts, pc, input, output, states, decisions, state,
                   prev_included_state, decisionsB>>

\* Both runs read the same line.
PairCommon(buf) ==
    LET a == LoopBody(state, prev_included_state, buf, opts)
        b == LoopBody(stateB, prevB, buf, opts)
    IN  /\ a.state # "Err"
        /\ b.state # "Err"
        /\ state' = a.state
        /\ prev_included_state' = a.prev
        /\ stateB' = b.state
        /\ prevB' = b.prev
        /\ input' = Append(input, buf)
        /\ decisions' = Append(decisions, a.emit)
        /\ decisionsB' = Append(decisionsB, b.emit)

PairHeader ==
    /\ pc = "prefix"
    /\ \E buf \in Lines :
         /\ IsCopyHeader(buf)
         /\ Utf8Valid(buf)
         /\ CopyHeaderState(ToLowercase(buf), opts) = "Statement"
         /\ PairCommon(buf)
    /\ states' = <<state, stateB>>
    /\ pc' = "tail"
    /\ UNCHANGED <<opts, output>>

PairTail ==
    /\ pc = "tail"
    /\ Len(input) < MaxTail
    /\ \E buf \in Lines : PairCommon(buf)
    /\ UNCHANGED <<opts, pc, output, states>>

PairNext ==
    \/ PairPrefixA
    \/ PairPrefixB
    \/ PairHeader
    \/ PairTail

PairSpec == PairInit /\ [][PairNext]_vars

(***************************************************************************)
(* Runs of the loop over COPY headers that differ in schema, table name    *)
(* and letter case, under exclude lists that differ in the same ways.      *)
(***************************************************************************)
\* Values of -e in these runs.
MatchLists ==
    { << <<"o","r","d","e","r","s">> >>,
      << <<"O","R","D","E","R","S">> >>,
      << <<"c","u","s","t","o","m","e","r","s">>, <<"O","r","d","e","r","s">> >> }

\* Values of -s in these runs.
MatchSchemas ==
    { <<"p","u","b","l","i","c">>, <<"P","u","b","l","i","c">> }

\* Records that read_until delivers in these runs.
MatchLines ==
    { <<"C","O","P","Y"," ","p","u","b","l","i","c",".","o","r","d","e","r","s"," ","(","i","d",")"," ","F","R","O","M"," ","s","t","d","i","n",";","\n">>,
      <<"C","O","P","Y"," ","P","U","B","L","I","C",".","O","r","d","e","r","s"," ","F","R","O","M"," ","s","t","d","i","n",";","\n">>,
      <<"C","O","P","Y"," ","p","u","b","l","i","c",".","o","r","d","e","r","s","_","a","r","c","h","i","v","e"," ","(","i","d",")"," ","F","R","O","M"," ","s","t","d","i","n",";","\n">>,
      <<"C","O","P","Y"," ","o","t","h","e","r",".","o","r","d","e","r","s"," ","(","i","d",")"," ","F","R","O","M"," ","s","t","d","i","n",";","\n">>,
      <<"C","O","P","Y"," ","p","u","b","l","i","c",".","c","u","s","t","o","m","e","r","s"," ","(","i","d",")"," ","F","R","O","M"," ","s","t","d","i","n",";","\n">>,
      <<"\\",".","\n">> }

MatchInit ==
    /\ opts \in [excluded_copy_blocks : MatchLists,
                 included_copy_blocks : {<<>>},
                 exclude_large_objects : {FALSE},
                 schema : MatchSchemas]
    /\ pc = "loop"
    /\ state = "Init"
    /\ prev_included_state = "Init"
    /\ input = <<>>
    /\ output = <<>>
    /\ states = <<>>
    /\ decisions = <<>>
    /\ stateB = "Init"
    /\ prevB = "Init"
    /\ decisionsB = <<>>

\* One iteration of the loop on one of these records.
MatchStep ==
    /\ pc = "loop"
    /\ Len(input) < MaxHeaders
    /\ \E buf \in MatchLines :
         LET r == LoopBody(state, prev_included_state, buf, opts) IN
         /\ r.state # "Err"
         /\ input' = Append(input, buf)
         /\ state' = r.state
         /\ prev_included_state' = r.prev
         /\ states' = Append(states, r.state)
         /\ decisions' = Append(decisions, r.emit)
         /\ output' = IF r.emit THEN WriteAll(output, buf) ELSE output
    /\ UNCHANGED <<opts, pc, stateB, prevB, decisionsB>>

\* read_until returns 0: break, flush, Ok(()).
MatchEnd ==
    /\ pc = "loop"
    /\ pc' = "done"
    /\ UNCHANGED <<opts, state, prev_included_state, input, output, states,
                   decisions, stateB, prevB, decisionsB>>

MatchNext ==
    \/ MatchStep
    \/ MatchEnd

MatchSpec == MatchInit /\ [][MatchNext]_vars

(***************************************************************************)
(* Runs over an input that is fixed when the run starts and that neither   *)
(* the reads, the classification nor the writes fail on.  Here input is    *)
(* the whole input and Len(states) the number of records read so far.      *)
(***************************************************************************)
\* Records that classify without error.
TermLines ==
    {l \in Lines : NextState("Init", l, [excluded_copy_blocks |-> <<>>,
                                         included_copy_blocks |-> <<>>,
                                         exclude_large_objects |-> FALSE,
                                         schema |-> <<>>]) # "Err"}

\* variant: a read of one byte or less ends the loop
AtEndOfInput_ShortRead(inp, n) ==
    IF n >= Len(inp) THEN TRUE ELSE Len(inp[n + 1]) <= 1

\* number_of_bytes_read == 0 after n records have been read
AtEndOfInput(inp, n) ==
    n >= Len(inp)

TermInit ==
    /\ opts \in [excluded_copy_blocks : BlockLists,
                 included_copy_blocks : BlockLists,
                 exclude_large_objects : BOOLEAN,
                 schema : Schemas]
    /\ ~ArgsConflict(opts)
    /\ pc = "open"
    /\ state = "Init"
    /\ prev_included_state = "Init"
    /\ input = <<>>
    /\ output = <<>>
    /\ states = <<>>
    /\ decisions = <<>>
    /\ stateB = "Init"
    /\ prevB = "Init"
    /\ decisionsB = <<>>

\* io::stdin() is locked: the content of the input is fixed from here on.
TermOpen ==
    /\ pc = "open"
    /\ pc' = "loop"
    /\ input' \in UNION {[1..n -> TermLines] : n \in 0..MaxTermLen}
    /\ UNCHANGED <<opts, state, prev_included_state, output, states,
                   decisions, stateB, prevB, decisionsB>>

\* One iteration on the next record of the input.
TermStep ==
    /\ pc = "loop"
    /\ ~AtEndOfInput(input, Len(states))
    /\ \E buf \in {input[Len(states) + 1]} :
         \E r \in {LoopBody(state, prev_included_state, buf, opts)} :
            /\ state' = r.state
            /\ prev_included_state' = r.prev
            /\ states' = Append(states, r.state)
            /\ decisions' = Append(decisions, r.emit)
            /\ output' = IF r.emit THEN WriteAll(output, buf) ELSE output
    /\ UNCHANGED <<opts, pc, input, stateB, prevB, decisionsB>>

\* read_until returns 0: break, flush, Ok(()).
TermEnd ==
    /\ pc = "loop"
    /\ AtEndOfInput(input, Len(states))
    /\ pc' = "done"
    /\ UNCHANGED <<opts, state, prev_included_state, input, output, states,
                   decisions, stateB, prevB, decisionsB>>

TermNext ==
    \/ TermOpen
    \/ TermStep
    \/ TermEnd

\* main is sequential code: once in the loop, an iteration that can run
\* does run.
TermSpec == TermInit /\ [][TermNext]_vars /\ WF_vars(TermStep \/ TermEnd)

(***************************************************************************)
(* Properties.  Line i of the input is "classified" when i <= Len(states); *)
(* states[i] is its classification and decisions[i] the result of          *)
(* must_include for it.                                                    *)
(***************************************************************************)
\* Line i starts with a large-object call other than lo_create.
IsOtherLo(buf) ==
    /\ ~StartsWith(buf, LO_CREATE)
    /\ StartsWith(buf, LO_FN) \/ StartsWith(buf, LO_WRITE)

\* The classified lines among the first n that must_include accepted.
RECURSIVE Kept(_)
Kept(n) ==
    IF n = 0 THEN <<>>
    ELSE IF decisions[n] THEN Append(Kept(n - 1), input[n])
    ELSE Kept(n - 1)

\* C1: once a COPY header is classified ExcludedCopyBlock, the header, every
\* following line and the first following line starting with the end marker
\* are dropped, whatever the lines in between are.
C1_ExcludedBlockDropped ==
    \A i \in 1..Len(decisions) : \A j \in i..Len(decisions) :
        ( /\ IsCopyHeader(input[i])
          /\ states[i] = "ExcludedCopyBlock"
          /\ \A k \in (i + 1)..(j - 1) : ~StartsWith(input[k], END_OF_COPY_BLOCK) )
        => ~decisions[j]

\* C2: the output never contains two adjacent lines that are both blank.
C2_NoAdjacentBlankLines ==
    \A k \in 1..(Len(output) - 1) :
        ~(output[k] = NEWLINE /\ output[k + 1] = NEWLINE)

\* C2 witness: a blank line was emitted, a dropped non-blank line followed,
\* and the blank line after that was dropped.
C2_Witness ==
    /\ Len(decisions) >= 3
    /\ input[1] = NEWLINE /\ decisions[1]
    /\ input[2] # NEWLINE /\ ~decisions[2]
    /\ input[3] = NEWLINE /\ ~decisions[3]
    /\ output = <<NEWLINE>>

\* C3: with exclude_large_objects set, every line starting with
\* SELECT pg_catalog.lo_create is emitted and every other line starting with
\* SELECT pg_catalog.lo_ or SELECT pg_catalog.lowrite is dropped.
C3_LargeObjectPreservation ==
    opts.exclude_large_objects =>
        /\ \A i \in 1..Len(decisions) :
              /\ StartsWith(input[i], LO_CREATE) => decisions[i]
              /\ IsOtherLo(input[i]) => ~decisions[i]
        /\ \A k \in 1..Len(output) : ~IsOtherLo(output[k])
        /\ ( /\ pc = "loop"
             /\ Len(decisions) > 0
             /\ StartsWith(input[Len(decisions)], LO_CREATE) )
           => ( /\ output # <<>>
                /\ output[Len(output)] = input[Len(decisions)] )

\* C3 witness: with the flag set, a lowrite line was dropped inside an
\* excluded block and the lo_create line after it was emitted.
C3_Witness ==
    /\ opts.exclude_large_objects
    /\ pc = "loop"
    /\ Len(decisions) = 3
    /\ states[1] = "ExcludedCopyBlock"
    /\ StartsWith(input[2], LO_WRITE) /\ ~decisions[2]
    /\ StartsWith(input[3], LO_CREATE) /\ decisions[3]
    /\ output = <<input[3]>>

\* C4: two runs under one configuration whose inputs differ only before a
\* COPY header that the configuration keeps take the same emit decision for
\* the header and for every line after it.
C4_LaterBlockUnaffected ==
    pc = "tail" => decisions = decisionsB

\* C4 witness: run A was inside an excluded block when the header arrived,
\* run B was not, and lines were both emitted and dropped after the header.
C4_Witness ==
    /\ pc = "tail"
    /\ states[1] = "ExcludedCopyBlock"
    /\ states[2] = "EmptyLine"
    /\ Len(decisions) >= 3
    /\ decisions[1]
    /\ \E k \in 2..Len(decisions) : ~decisions[k]

\* C5: with a non-empty include list a COPY header matching none of the
\* included names is ExcludedCopyBlock and dropped, a header matching one is
\* Statement and emitted; with both lists empty every header is Statement
\* and emitted.
C5_AllowList ==
    \A i \in 1..Len(decisions) :
        IsCopyHeader(input[i]) =>
            LET named == \E k \in 1..Len(opts.included_copy_blocks) :
                            Contains(ToLowercase(input[i]),
                                     BlockPattern(opts.schema, opts.included_copy_blocks[k]))
            IN  /\ (opts.included_copy_blocks # <<>> /\ ~named)
                      => (states[i] = "ExcludedCopyBlock" /\ ~decisions[i])
                /\ (opts.included_copy_blocks # <<>> /\ named)
                      => (states[i] = "Statement" /\ decisions[i])
                /\ (opts.included_copy_blocks = <<>> /\ opts.excluded_copy_blocks = <<>>)
                      => (states[i] = "Statement" /\ decisions[i])

\* C5 witness: under an include list one header was kept and another one
\* was dropped in the same run.
C5_Witness ==
    /\ opts.included_copy_blocks # <<>>
    /\ Len(decisions) >= 2
    /\ IsCopyHeader(input[1]) /\ states[1] = "ExcludedCopyBlock" /\ ~decisions[1]
    /\ IsCopyHeader(input[2]) /\ states[2] = "Statement" /\ decisions[2]

\* C6: every line starting with -- is classified Comment and is never
\* emitted.
C6_CommentsDropped ==
    /\ \A i \in 1..Len(decisions) :
          StartsWith(input[i], COMMENT) => (states[i] = "Comment" /\ ~decisions[i])
    /\ \A k \in 1..Len(output) : ~StartsWith(output[k], COMMENT)

\* C6 witness: a comment line was read inside an excluded block and another
\* one right after an emitted blank line.
C6_Witness ==
    /\ Len(decisions) >= 4
    /\ states[1] = "ExcludedCopyBlock"
    /\ StartsWith(input[2], COMMENT)
    /\ states[3] = "EmptyLine" /\ decisions[3]
    /\ StartsWith(input[4], COMMENT)

\* C7: the output is the sequence of the input lines that must_include
\* accepted, unchanged and in input order (short of the last one when its
\* write failed); so it is a subsequence of the input read so far.
C7_OrderPreserved ==
    LET n == Len(decisions) IN
    \/ output = Kept(n)
    \/ /\ pc = "failed"
       /\ n > 0
       /\ decisions[n]
       /\ output = Kept(n - 1)

\* C7 witness: some lines were emitted, among them a COPY header, and some
\* were dropped.
C7_Witness ==
    /\ Len(output) >= 2
    /\ Len(output) < Len(decisions)
    /\ \E k \in 1..Len(output) : IsCopyHeader(output[k])

\* C8: with both the exclude list and the include list non-empty the run is
\* rejected before the loop: no line is read, classified or emitted.
C8_BothListsRejected ==
    (opts.excluded_copy_blocks # <<>> /\ opts.included_copy_blocks # <<>>) =>
        /\ pc \in {"args", "rejected"}
        /\ input = <<>>
        /\ states = <<>>
        /\ decisions = <<>>
        /\ output = <<>>
        /\ state = "Init"
        /\ prev_included_state = "Init"

\* C8 witness: a command line naming both lists has been rejected.
C8_Witness ==
    /\ pc = "rejected"
    /\ opts.excluded_copy_blocks # <<>>
    /\ opts.included_copy_blocks # <<>>

\* C9 as stated: once the first line has been processed, state is never
\* Init again.
C9_NeverInitAgain ==
    Len(states) >= 1 => state # "Init"

\* C9 as amended: after a line has been processed, state is Init exactly
\* when every line processed so far starts with the end marker; once a line
\* not starting with it has been processed, state is never Init again.
C9_InitOnlyAfterEndMarkers ==
    /\ \A i \in 1..Len(states) :
          states[i] = "Init" <=>
              \A k \in 1..i : StartsWith(input[k], END_OF_COPY_BLOCK)
    /\ state = IF states = <<>> THEN "Init" ELSE states[Len(states)]

\* C9 witness: two leading end markers left state at Init and the third
\* line moved it away.
C9_Witness ==
    /\ Len(states) >= 3
    /\ states[1] = "Init"
    /\ states[2] = "Init"
    /\ states[3] # "Init"

\* C10 as stated: in state ExcludedCopyBlock a lo_create line is classified
\* Statement, any other lo_ / lowrite line is classified LargeObject, and
\* the line is emitted.
C10_LoRowLeaks ==
    \A i \in 2..Len(decisions) :
        states[i - 1] = "ExcludedCopyBlock" =>
            /\ StartsWith(input[i], LO_CREATE)
                  => (states[i] = "Statement" /\ decisions[i])
            /\ IsOtherLo(input[i])
                  => (states[i] = "LargeObject" /\ decisions[i])

\* C10 as amended: in state ExcludedCopyBlock a lo_create line is
\* classified Statement and emitted; any other lo_ / lowrite line is
\* classified LargeObject, and it is emitted exactly when
\* exclude_large_objects is false.
C10_LoRowReclassified ==
    \A i \in 2..Len(decisions) :
        states[i - 1] = "ExcludedCopyBlock" =>
            /\ StartsWith(input[i], LO_CREATE)
                  => (states[i] = "Statement" /\ decisions[i])
            /\ IsOtherLo(input[i])
                  => ( /\ states[i] = "LargeObject"
                       /\ decisions[i] = ~opts.exclude_large_objects )

\* C10 witness: a lowrite row inside an excluded block was emitted and the
\* lo_create row of a second excluded block as well.
C10_Witness ==
    /\ Len(decisions) >= 4
    /\ states[1] = "ExcludedCopyBlock"
    /\ IsOtherLo(input[2]) /\ states[2] = "LargeObject" /\ decisions[2]
    /\ states[3] = "ExcludedCopyBlock"
    /\ StartsWith(input[4], LO_CREATE) /\ decisions[4]
    /\ Len(output) = 2

\* A line that no arm of next_state before the last one matches.
IsFallbackLine(buf) ==
    /\ ~StartsWith(buf, LO_CREATE)
    /\ ~StartsWith(buf, LO_FN)
    /\ ~StartsWith(buf, LO_WRITE)
    /\ ~StartsWith(buf, NEWLINE)
    /\ ~StartsWith(buf, COMMENT)
    /\ ~StartsWith(buf, END_OF_COPY_BLOCK)
    /\ ~IsCopyHeader(buf)

\* C11: for an excluded COPY header followed by fallback data rows and then
\* a line starting with the end marker, the header and the rows are
\* ExcludedCopyBlock, the end line is EndOfExcludedCopyBlock, all of them are
\* dropped, and a fallback line right after the end line is Statement and
\* emitted.
C11_ExcludedBlockLifeCycle ==
    \A i \in 1..Len(states) : \A j \in (i + 1)..Len(states) :
        ( /\ IsCopyHeader(input[i])
          /\ states[i] = "ExcludedCopyBlock"
          /\ \A k \in (i + 1)..(j - 1) : IsFallbackLine(input[k])
          /\ StartsWith(input[j], END_OF_COPY_BLOCK) )
        => /\ \A k \in i..(j - 1) :
                 states[k] = "ExcludedCopyBlock" /\ ~decisions[k]
           /\ states[j] = "EndOfExcludedCopyBlock"
           /\ ~decisions[j]
           /\ (j + 1 <= Len(states) /\ IsFallbackLine(input[j + 1]))
                 => (states[j + 1] = "Statement" /\ decisions[j + 1])

\* C11 witness: an excluded header, one data row, the end line and a
\* statement; only the statement reached the output.
C11_Witness ==
    /\ pc = "done"
    /\ Len(states) = 4
    /\ IsCopyHeader(input[1]) /\ states[1] = "ExcludedCopyBlock"
    /\ IsFallbackLine(input[2]) /\ states[2] = "ExcludedCopyBlock"
    /\ states[3] = "EndOfExcludedCopyBlock"
    /\ IsFallbackLine(input[4]) /\ states[4] = "Statement"
    /\ output = <<input[4]>>

\* Position of the first "." of a COPY header.
DotAt(h) ==
    CHOOSE p \in 1..Len(h) : h[p] = "." /\ \A r \in 1..(p - 1) : h[r] # "."

\* The schema a COPY header names: the bytes between "COPY " and the dot.
SchemaOf(h) ==
    SubSeq(h, Len(COPY_BLOCK_PREFIX) + 1, DotAt(h) - 1)

\* The table a COPY header names: the bytes between the dot and the next
\* space.
TableOf(h) ==
    LET q == CHOOSE q \in (DotAt(h) + 1)..Len(h) :
                 h[q] = " " /\ \A r \in (DotAt(h) + 1)..(q - 1) : h[r] # " "
    IN  SubSeq(h, DotAt(h) + 1, q - 1)

\* C12: a COPY header is excluded by an exclude-list name exactly when the
\* lower-cased header contains the lower-cased text "COPY schema.name ";
\* for headers of the form COPY schema.table ... that is exactly when schema
\* and table equal the configured schema and a listed name up to letter
\* case, so a longer table name or another schema is not excluded.
C12_BlockNameMatching ==
    \A i \in 1..Len(states) :
        IsCopyHeader(input[i]) =>
            LET h == input[i]
                hit == \E k \in 1..Len(opts.excluded_copy_blocks) :
                          Contains(ToLowercase(h),
                                   ToLowercase(<<"C","O","P","Y"," ">> \o opts.schema
                                               \o <<".">> \o opts.excluded_copy_blocks[k]
                                               \o <<" ">>))
                same == \E k \in 1..Len(opts.excluded_copy_blocks) :
                          /\ ToLowercase(SchemaOf(h)) = ToLowercase(opts.schema)
                          /\ ToLowercase(TableOf(h))
                                = ToLowercase(opts.excluded_copy_blocks[k])
            IN  /\ states[i] = "ExcludedCopyBlock" <=> hit
                /\ hit <=> same

\* C12 witness: a header was excluded by a name listed in another letter
\* case, and a header whose table name only begins with a listed name was
\* kept.
C12_Witness ==
    /\ Len(states) = 2
    /\ IsCopyHeader(input[1])
    /\ states[1] = "ExcludedCopyBlock"
    /\ \A k \in 1..Len(opts.excluded_copy_blocks) :
          TableOf(input[1]) # opts.excluded_copy_blocks[k]
    /\ SchemaOf(input[1]) # opts.schema
    /\ IsCopyHeader(input[2])
    /\ states[2] = "Statement"
    /\ \E k \in 1..Len(opts.excluded_copy_blocks) :
          /\ TableOf(input[2]) # opts.excluded_copy_blocks[k]
          /\ StartsWith(ToLowercase(TableOf(input[2])),
                        ToLowercase(opts.excluded_copy_blocks[k]))

\* C13: an iteration that classifies a line replaces state by the line's
\* classification; when must_include is false for it nothing is appended to
\* the output and prev_included_state is unchanged; when it is true
\* prev_included_state becomes equal to state (and the line is appended
\* unless the write fails).
C13_DroppedLineFrame ==
    [][ Len(states') = Len(states) + 1 =>
          LET n == Len(states')
              emit == decisions'[n]
          IN  /\ state' = NextState(state, input'[n], opts)
              /\ states'[n] = state'
              /\ emit = MustInclude(state', opts, prev_included_state)
              /\ ~emit => ( /\ output' = output
                            /\ prev_included_state' = prev_included_state )
              /\ emit => ( /\ prev_included_state' = state'
                           /\ pc' # "failed" => output' = Append(output, input'[n]) )
      ]_vars

\* C13 witness: a line was emitted and the next one dropped; state moved on
\* to the dropped line's classification, prev_included_state and the output
\* did not.
C13_Witness ==
    /\ pc = "loop"
    /\ Len(states) = 2
    /\ decisions[1] /\ ~decisions[2]
    /\ state = states[2]
    /\ state # states[1]
    /\ prev_included_state = states[1]
    /\ output = <<input[1]>>

\* C14 as stated: classification fails only for a COPY header that is not
\* valid UTF-8, and after a failed read, classification or write the
\* failing line is neither classified nor emitted: every classified line
\* that must_include accepted is in the output.
C14_FailingLineUnclassified ==
    /\ Len(input) > Len(states) =>
          ( /\ IsCopyHeader(input[Len(input)])
            /\ ~Utf8Valid(input[Len(input)]) )
    /\ pc = "failed" => output = Kept(Len(states))

\* C14 as amended: classification fails only for a COPY header that is not
\* valid UTF-8, and then the line is neither classified nor emitted; a line
\* whose write fails has been classified (state and prev_included_state are
\* updated) but is not emitted; after any failure nothing more is read,
\* classified or emitted.
C14_AbortOnError ==
    /\ [] ( /\ Len(input) > Len(states) =>
                 ( /\ pc = "failed"
                   /\ Len(input) = Len(states) + 1
                   /\ IsCopyHeader(input[Len(input)])
                   /\ ~Utf8Valid(input[Len(input)]) )
            /\ (pc = "failed" /\ output # Kept(Len(states))) =>
                 ( /\ Len(states) > 0
                   /\ Len(input) = Len(states)
                   /\ decisions[Len(states)]
                   /\ state = states[Len(states)]
                   /\ prev_included_state = state
                   /\ output = Kept(Len(states) - 1) ) )
    /\ [][ /\ pc # "failed"
           /\ Len(input') > Len(states') =>
                 ( /\ pc' = "failed"
                   /\ UNCHANGED <<state, prev_included_state, output, states,
                                  decisions>> )
         ]_vars

\* C14 witness: two lines were emitted, then the write of a third accepted
\* line failed: it is classified but not in the output.
C14_Witness ==
    /\ pc = "failed"
    /\ Len(states) = 3
    /\ Len(input) = 3
    /\ decisions = <<TRUE, TRUE, TRUE>>
    /\ output = <<input[1], input[2]>>
    /\ ~Utf8Valid(input[2])
    /\ state = states[3]
    /\ state # states[2]

\* The run has finished successfully after classifying every line of the
\* input once, in order.
Finished ==
    /\ pc = "done"
    /\ Len(states) = Len(input)
    /\ \A i \in 1..Len(input) :
          states[i] = NextState(IF i = 1 THEN "Init" ELSE states[i - 1],
                                input[i], opts)
    /\ output = Kept(Len(input))

\* C15: on a finite input without errors the loop classifies each line
\* exactly once, in arrival order, and then finishes successfully; it never
\* stops before the last line.
C15_Terminates ==
    /\ (pc = "loop") ~> Finished
    /\ [](pc = "done" => Finished)
    /\ [][ \/ pc = "open"
           \/ Len(states') = Len(states) + 1
           \/ (pc' = "done" /\ states' = states) ]_vars

\* C15 witness: a run over three lines, the first of them blank, has
\* finished with two lines emitted and one dropped.
C15_Witness ==
    /\ Finished
    /\ Len(input) = 3
    /\ input[1] = NEWLINE
    /\ decisions = <<TRUE, FALSE, TRUE>>

\* C16: a blank line is dropped only if a line has been emitted before it
\* and the most recently emitted line is blank; while the run has not
\* failed, prev_included_state is EmptyLine exactly when the last line of
\* the output is blank; and state in {EmptyLine, ConsecutiveEmptyLine}
\* implies prev_included_state = EmptyLine.
C16_NoOverCollapse ==
    /\ \A i \in 1..Len(decisions) :
          (input[i] = NEWLINE /\ ~decisions[i]) =>
              ( /\ Kept(i - 1) # <<>>
                /\ Kept(i - 1)[Len(Kept(i - 1))] = NEWLINE )
    /\ pc # "failed" =>
          ( prev_included_state = "EmptyLine"
               <=> (output # <<>> /\ output[Len(output)] = NEWLINE) )
    /\ state \in {"EmptyLine", "ConsecutiveEmptyLine"} =>
          prev_included_state = "EmptyLine"

\* C16 witness: of three blank lines the first was emitted, the second
\* dropped, and the one after an emitted statement emitted again.
C16_Witness ==
    /\ pc = "loop"
    /\ Len(decisions) = 4
    /\ input[1] = NEWLINE /\ input[2] = NEWLINE /\ input[4] = NEWLINE
    /\ decisions = <<TRUE, FALSE, TRUE, TRUE>>
    /\ states[2] = "ConsecutiveEmptyLine"
    /\ prev_included_state = "EmptyLine"

\* C17: whenever a COPY header is emitted (classified Statement), the next
\* line starting with the end marker is emitted too, whatever the data rows
\* in between are.
C17_KeptBlockTerminatorEmitted ==
    \A i \in 1..Len(decisions) : \A j \in (i + 1)..Len(decisions) :
        ( /\ IsCopyHeader(input[i])
          /\ states[i] = "Statement"
          /\ decisions[i]
          /\ \A k \in (i + 1)..(j - 1) :
                /\ ~StartsWith(input[k], END_OF_COPY_BLOCK)
                /\ ~IsCopyHeader(input[k])
          /\ StartsWith(input[j], END_OF_COPY_BLOCK) )
        => decisions[j]

\* C18: prev_included_state is always one of Init, EmptyLine, Statement and
\* LargeObject, and it is LargeObject only when exclude_large_objects is
\* false.
C18_TrackerRange ==
    /\ prev_included_state \in {"Init", "EmptyLine", "Statement", "LargeObject"}
    /\ prev_included_state = "LargeObject" => ~opts.exclude_large_objects

\* C18 witness: a large-object line was emitted, then an excluded block was
\* read up to its end line; the tracker still holds LargeObject.
C18_Witness ==
    /\ pc = "loop"
    /\ Len(states) = 3
    /\ states = <<"LargeObject", "ExcludedCopyBlock", "EndOfExcludedCopyBlock">>
    /\ prev_included_state = "LargeObject"
    /\ state = "EndOfExcludedCopyBlock"
    /\ Len(output) = 1

====
